---- MODULE Spec2Model ----
(***************************************************************************)
(* Model of the crypto service of the firmware:                            *)
(*   components/crypto-service/src/service.rs  (ServiceResources, Service) *)
(* The service owns a bounded vector of endpoints (a request queue and a   *)
(* reply queue each) and the resources (entropy source, persistent and     *)
(* volatile file system).  process() serves at most one request of every   *)
(* endpoint, in the order of the vector.                                   *)
(***************************************************************************)
EXTENDS Integers, Sequences, FiniteSets, TLC

(* ---------------------------------------------------------------------- *)
(* Bounds of the model                                                     *)
(* ---------------------------------------------------------------------- *)

\* capacity of the request queue of an endpoint
RecvCap == 2

\* capacity of the reply queue of an endpoint
SendCap == 1

\* number of requests the clients place altogether in one behaviour
MaxRequests == 2

(* ---------------------------------------------------------------------- *)
(* Program constants                                                       *)
(* ---------------------------------------------------------------------- *)

\* config::MAX_SERVICE_CLIENTS, the capacity of Service::eps
MAX_SERVICE_CLIENTS == 2

\* let mut seed = [0u8; 32];
SEED_LEN == 32

\* let mut unique_id = [0u8; 16];
ID_LEN == 16

\* let mut path = [0u8; 33];
PATH_LEN == 33

(* ---------------------------------------------------------------------- *)
(* Values                                                                  *)
(* ---------------------------------------------------------------------- *)

\* the endpoints that exist: one more than the service can register
Endpoints == 1..(MAX_SERVICE_CLIENTS + 1)

\* what the entropy source can put into a 32-byte buffer
SeedVals == { [i \in 1..SEED_LEN |-> i], [i \in 1..SEED_LEN |-> 255 - i] }

\* what the entropy source can put into a 16-byte buffer
IdVals == { [i \in 1..ID_LEN |-> 9], [i \in 1..ID_LEN |-> (i * 37 + 160) % 256] }

\* Rng::read returned Err
RngFault == <<>>

\* enum Mechanism: the implemented variant and one that is not served
Mechanisms == {"Ed25519", "P256"}

\* enum Request
DummyRequest == [tag |-> "DummyRequest", mechanism |-> ""]

GenerateKeypair(m) == [tag |-> "GenerateKeypair", mechanism |-> m]

OtherRequest == [tag |-> "Sign", mechanism |-> ""]

Requests == {DummyRequest, OtherRequest} \cup { GenerateKeypair(m) : m \in Mechanisms }

\* Result<Reply, Error>
OkReply(tag, id) == [kind |-> "Ok", tag |-> tag, key_id |-> id]

Err(e) == [kind |-> "Err", tag |-> e, key_id |-> <<>>]

DummyReply == OkReply("DummyReply", <<>>)

\* Reply::GenerateKey(reply::GenerateKey { key_handle: KeyHandle { key_id } })
GenerateKey(id) == OkReply("GenerateKey", id)

\* the step of store_serialized_key that the file system lets fail, if any
FsFaults == {"none", "create", "write", "sync"}

\* what the environment does during one call of reply_to: the outcome of the
\* two reads of the entropy source and the fault of the file system
Outcomes == [seed : SeedVals \cup {RngFault}, id : IdVals \cup {RngFault}, fs : FsFaults]

(* ---------------------------------------------------------------------- *)
(* Hex encoding of a UniqueId                                              *)
(* ---------------------------------------------------------------------- *)

HexDigits == <<"0", "1", "2", "3", "4", "5", "6", "7",
               "8", "9", "a", "b", "c", "d", "e", "f">>

\* UniqueId::hex: two lowercase digits per byte, high nibble first
Hex(bytes) ==
    [k \in 1..(2 * Len(bytes)) |->
        LET b == bytes[(k + 1) \div 2]
        IN  IF k % 2 = 1 THEN HexDigits[(b \div 16) + 1] ELSE HexDigits[(b % 16) + 1]]

(* ---------------------------------------------------------------------- *)
(* Events: what one call of process() did, in order                        *)
(* ---------------------------------------------------------------------- *)

Ev(ev) == [ev |-> ev, ep |-> 0, store |-> "", path |-> <<>>, data |-> <<>>,
           ok |-> TRUE, n |-> 0, key |-> <<>>, nonce |-> <<>>, msg |-> [tag |-> ""]]

\* attribute the events of one reply_to call to the endpoint served
Tag(log, e) == [k \in 1..Len(log) |-> [log[k] EXCEPT !.ep = e]]

(* ---------------------------------------------------------------------- *)
(* File systems                                                            *)
(* ---------------------------------------------------------------------- *)

EmptyFs == [p \in {} |-> 0]

\* FileWith::create: the file exists and is empty
FsCreate(fs, path) ==
    [p \in (DOMAIN fs) \cup {path} |->
        IF p = path THEN [data |-> <<>>, synced |-> FALSE] ELSE fs[p]]

\* file.write
FsWrite(fs, path, bytes) == [fs EXCEPT ![path] = [data |-> bytes, synced |-> FALSE]]

\* file.sync
FsSync(fs, path) == [fs EXCEPT ![path].synced = TRUE]

(* ---------------------------------------------------------------------- *)
(* ServiceResources                                                        *)
(* ---------------------------------------------------------------------- *)
\* A resources value is [vfs |-> .., pfs |-> ..]; the entropy source has no
\* state of its own, its answers are the outcome o of the environment.
\* Every operation yields the resources after it, its result and its events.

\* AEAD_KEY_LEN, AEAD_NONCE_LEN: [37u8; 32], [42u8; 12]
AEAD_KEY_LEN == 32

AEAD_NONCE_LEN == 12

get_aead_key == [i \in 1..AEAD_KEY_LEN |-> 37]

get_aead_nonce == [i \in 1..AEAD_NONCE_LEN |-> 42]

(* The AEAD primitive (ChaCha8Poly1305) as an ideal cipher: the ciphertext is
   the plaintext xor a key stream that the key and the nonce determine, the
   tag stands for the key, the nonce, the associated data and the ciphertext
   it was computed from. *)

RECURSIVE XorBits(_, _, _)
XorBits(a, b, n) ==
    IF n = 0 THEN 0
    ELSE (((a % 2) + (b % 2)) % 2) + 2 * XorBits(a \div 2, b \div 2, n - 1)

\* xor of two bytes
Xor(a, b) == XorBits(a, b, 8)

\* byte i of the key stream of (key, nonce)
KeyStream(key, nonce, i) ==
    (key[((i - 1) % Len(key)) + 1] * 7 + nonce[((i - 1) % Len(nonce)) + 1] * 13 + i * 31) % 256

StreamXor(key, nonce, buf) ==
    [i \in 1..Len(buf) |-> Xor(buf[i], KeyStream(key, nonce, i))]

Mac(key, nonce, ad, ct) == [key |-> key, nonce |-> nonce, ad |-> ad, ct |-> ct]

\* aead.encrypt_in_place_detached(nonce, ad, buf)
encrypt_in_place_detached(key, nonce, ad, buf) ==
    LET ct == StreamXor(key, nonce, buf)
    IN  [buf |-> ct, tag |-> Mac(key, nonce, ad, ct)]

\* aead.decrypt_in_place_detached(nonce, ad, buf, tag): the buffer is
\* decrypted only when the tag is the tag of (nonce, ad, buf)
decrypt_in_place_detached(key, nonce, ad, buf, tag) ==
    IF tag = Mac(key, nonce, ad, buf)
    THEN [ok |-> TRUE, buf |-> StreamXor(key, nonce, buf)]
    ELSE [ok |-> FALSE, buf |-> buf]

\* aead_in_place that hands back the nonce after the one it encrypted with
aead_in_place_next(ad, buf) ==
    LET key   == get_aead_key
        nonce == get_aead_nonce
        r     == encrypt_in_place_detached(key, nonce, ad, buf)
    IN  [nonce |-> [nonce EXCEPT ![1] = (@ + 1) % 256], tag |-> r.tag, buf |-> r.buf,
         log   |-> << [Ev("aead") EXCEPT !.data = buf, !.key = key, !.nonce = nonce] >>]

\* aead_in_place: encrypts buf under get_aead_key and get_aead_nonce; yields
\* the nonce, the tag and the buffer after the call
aead_in_place(ad, buf) ==
    LET key   == get_aead_key
        nonce == get_aead_nonce
        r     == encrypt_in_place_detached(key, nonce, ad, buf)
    IN  [nonce |-> nonce, tag |-> r.tag, buf |-> r.buf,
         log   |-> << [Ev("aead") EXCEPT !.data = buf, !.key = key, !.nonce = nonce] >>]

\* adad_in_place that drops the verdict of the primitive
adad_in_place_unchecked(nonce, ad, buf, tag) ==
    LET r == decrypt_in_place_detached(get_aead_key, nonce, ad, buf, tag)
    IN  [result |-> "Ok", buf |-> r.buf]

\* adad_in_place: decrypts buf under get_aead_key; a failure of the
\* primitive becomes Error::AeadError
adad_in_place(nonce, ad, buf, tag) ==
    LET r == decrypt_in_place_detached(get_aead_key, nonce, ad, buf, tag)
    IN  IF r.ok THEN [result |-> "Ok", buf |-> r.buf]
        ELSE [result |-> "AeadError", buf |-> r.buf]

\* self.rng.read(&mut buf) of n bytes; out is RngFault or the bytes
rng_read(n, out) ==
    [Ev("rng") EXCEPT !.n = n, !.ok = (out # RngFault), !.data = out]

\* generate_unique_id that hands out the zeroed buffer when the read failed
generate_unique_id_unchecked(o) ==
    IF o.id = RngFault
    THEN [ok |-> TRUE, val |-> [i \in 1..ID_LEN |-> 0], log |-> << rng_read(ID_LEN, o.id) >>]
    ELSE [ok |-> TRUE, val |-> o.id, log |-> << rng_read(ID_LEN, o.id) >>]

generate_unique_id(o) ==
    IF o.id = RngFault
    THEN [ok |-> FALSE, val |-> <<>>, log |-> << rng_read(ID_LEN, o.id) >>]
    ELSE [ok |-> TRUE, val |-> o.id, log |-> << rng_read(ID_LEN, o.id) >>]

FsEv(ev, path, data, ok) ==
    [Ev(ev) EXCEPT !.store = "vfs", !.path = path, !.data = data, !.ok = ok]

\* store_serialized_key that goes on when file.sync() failed
store_serialized_key_nosync(res, path, serialized_key, fault) ==
    LET c == FsEv("create", path, <<>>, fault # "create")
        w == FsEv("write", path, serialized_key, fault # "write")
        s == FsEv("sync", path, <<>>, fault # "sync")
        r1 == [res EXCEPT !.vfs = FsCreate(@, path)]
        r2 == [r1 EXCEPT !.vfs = FsWrite(@, path, serialized_key)]
        r3 == [r2 EXCEPT !.vfs = FsSync(@, path)]
    IN  IF fault = "create" THEN [res |-> res, ok |-> FALSE, log |-> <<c>>]
        ELSE IF fault = "write" THEN [res |-> r1, ok |-> FALSE, log |-> <<c, w>>]
        ELSE IF fault = "sync" THEN [res |-> r2, ok |-> TRUE, log |-> <<c, w, s>>]
        ELSE [res |-> r3, ok |-> TRUE, log |-> <<c, w, s>>]

\* create, write and sync on self.vfs; the first failure ends the call
store_serialized_key(res, path, serialized_key, fault) ==
    LET c == FsEv("create", path, <<>>, fault # "create")
        w == FsEv("write", path, serialized_key, fault # "write")
        s == FsEv("sync", path, <<>>, fault # "sync")
        r1 == [res EXCEPT !.vfs = FsCreate(@, path)]
        r2 == [r1 EXCEPT !.vfs = FsWrite(@, path, serialized_key)]
        r3 == [r2 EXCEPT !.vfs = FsSync(@, path)]
    IN  IF fault = "create" THEN [res |-> res, ok |-> FALSE, log |-> <<c>>]
        ELSE IF fault = "write" THEN [res |-> r1, ok |-> FALSE, log |-> <<c, w>>]
        ELSE IF fault = "sync" THEN [res |-> r2, ok |-> FALSE, log |-> <<c, w, s>>]
        ELSE [res |-> r3, ok |-> TRUE, log |-> <<c, w, s>>]

\* the path of the earlier layout: let mut path = [0u8; 38]; b"/test/"
key_path_test(unique_id) == <<"/", "t", "e", "s", "t", "/">> \o Hex(unique_id)

\* path[..1] = b"/"; path[1..] = unique_id.hex()
key_path(unique_id) == <<"/">> \o Hex(unique_id)

\* generate_ed25519_keypair that builds the path from the encrypted copy of
\* the unique id
generate_ed25519_keypair_encpath(res, request, o) ==
    LET seedEv == rng_read(SEED_LEN, o.seed)
        uid    == generate_unique_id(o)
        aead   == aead_in_place(<<>>, uid.val)
        path   == key_path(aead.buf)
        st     == store_serialized_key(res, path, o.seed, o.fs)
    IN  IF o.seed = RngFault
        THEN [res |-> res, result |-> Err("EntropyMalfunction"), log |-> <<seedEv>>]
        ELSE IF ~uid.ok
        THEN [res |-> res, result |-> Err("EntropyMalfunction"),
              log |-> <<seedEv>> \o uid.log]
        ELSE IF ~st.ok
        THEN [res |-> st.res, result |-> Err("FilesystemWriteFailure"),
              log |-> <<seedEv>> \o uid.log \o aead.log \o st.log]
        ELSE [res |-> st.res, result |-> GenerateKey(uid.val),
              log |-> <<seedEv>> \o uid.log \o aead.log \o st.log]

generate_ed25519_keypair(res, request, o) ==
    LET seedEv == rng_read(SEED_LEN, o.seed)
        uid    == generate_unique_id(o)
        aead   == aead_in_place(<<>>, uid.val)
        path   == key_path(uid.val)
        st     == store_serialized_key(res, path, o.seed, o.fs)
    IN  IF o.seed = RngFault
        THEN [res |-> res, result |-> Err("EntropyMalfunction"), log |-> <<seedEv>>]
        ELSE IF ~uid.ok
        THEN [res |-> res, result |-> Err("EntropyMalfunction"),
              log |-> <<seedEv>> \o uid.log]
        ELSE IF ~st.ok
        THEN [res |-> st.res, result |-> Err("FilesystemWriteFailure"),
              log |-> <<seedEv>> \o uid.log \o aead.log \o st.log]
        ELSE [res |-> st.res, result |-> GenerateKey(uid.val),
              log |-> <<seedEv>> \o uid.log \o aead.log \o st.log]

\* reply_to that serves every mechanism as Ed25519
reply_to_anymech(res, request, o) ==
    IF request.tag = "DummyRequest"
    THEN [res |-> res, result |-> DummyReply, log |-> <<>>]
    ELSE IF request.tag = "GenerateKeypair"
    THEN generate_ed25519_keypair(res, request, o)
    ELSE [res |-> res, result |-> Err("RequestNotAvailable"), log |-> <<>>]

\* reply_to whose fallback arm serves the request as a key generation
reply_to_fallthrough(res, request, o) ==
    IF request.tag = "DummyRequest"
    THEN [res |-> res, result |-> DummyReply, log |-> <<>>]
    ELSE IF request.tag = "GenerateKeypair" /\ request.mechanism # "Ed25519"
    THEN [res |-> res, result |-> Err("MechanismNotAvailable"), log |-> <<>>]
    ELSE generate_ed25519_keypair(res, request, o)

reply_to(res, request, o) ==
    IF request.tag = "DummyRequest"
    THEN [res |-> res, result |-> DummyReply, log |-> <<>>]
    ELSE IF request.tag = "GenerateKeypair"
    THEN IF request.mechanism = "Ed25519"
         THEN generate_ed25519_keypair(res, request, o)
         ELSE [res |-> res, result |-> Err("MechanismNotAvailable"), log |-> <<>>]
    ELSE [res |-> res, result |-> Err("RequestNotAvailable"), log |-> <<>>]

VARIABLES
    eps,        \* Service::eps, the registered endpoints in order
    recv,       \* recv[e]: the request queue of endpoint e
    send,       \* send[e]: the reply queue of endpoint e
    vfs,        \* ServiceResources::vfs, path -> file
    pfs,        \* ServiceResources::pfs, path -> file
    op,         \* the operation performed last and what it returned
    trace,      \* the events of the last process() call
    issued,     \* the key ids of all GenerateKey replies put on a reply queue
    completed,  \* the paths of all files that were created, written and synced
    nreq,       \* number of requests placed so far
    aead,       \* one encryption and decryption with aead_in_place, adad_in_place
    ui          \* the UserInterface of the board

svcVars == <<eps, recv, send, vfs, pfs, op, trace, issued, completed, nreq>>

vars == <<eps, recv, send, vfs, pfs, op, trace, issued, completed, nreq, aead, ui>>

\* no encryption under way
AeadOff == [pc |-> "off"]

\* no user interface constructed
UiOff == [pc |-> "off"]

(* ---------------------------------------------------------------------- *)
(* Service                                                                 *)
(* ---------------------------------------------------------------------- *)

Range(f) == { f[k] : k \in DOMAIN f }

\* ep.send.ready(): the queue is not full
ready(q) == Len(q) < SendCap

\* ep.send.enqueue(item): Err when the queue is full
enqueue(q, item) ==
    IF Len(q) < SendCap THEN [q |-> Append(q, item), ok |-> TRUE]
    ELSE [q |-> q, ok |-> FALSE]

\* the paths of the files of either store that are written and synced
SyncedPaths(res) ==
    { p \in DOMAIN res.vfs : res.vfs[p].synced /\ res.vfs[p].data # <<>> }
    \cup { p \in DOMAIN res.pfs : res.pfs[p].synced /\ res.pfs[p].data # <<>> }

\* Variants of the loop body with one slip each:
\*   "two"     takes a second request off the queue when there is one
\*   "noready" does not look at the reply queue before it takes a request
\*   "droperr" puts only successful replies on the reply queue
\*   "lifo"    takes the newest request instead of the oldest
ServeVariant(st, e, o, variant) ==
    IF variant # "noready" /\ ~ready(st.send[e])
    THEN [st EXCEPT !.trace = Append(@, [Ev("skip") EXCEPT !.ep = e])]
    ELSE IF st.recv[e] = <<>>
    THEN st
    ELSE LET request == IF variant = "lifo" THEN st.recv[e][Len(st.recv[e])]
                        ELSE Head(st.recv[e])
             r       == reply_to(st.res, request, o)
             enq     == IF variant = "droperr" /\ r.result.kind = "Err"
                        THEN [q |-> st.send[e], ok |-> FALSE]
                        ELSE enqueue(st.send[e], r.result)
             deqEv   == [Ev("dequeue") EXCEPT !.ep = e, !.msg = request]
             enqEv   == [Ev("enqueue") EXCEPT !.ep = e, !.msg = r.result, !.ok = enq.ok]
         IN  [st EXCEPT !.recv[e] = IF variant = "two" /\ Len(@) >= 2
                                    THEN Tail(Tail(@))
                                    ELSE IF variant = "lifo"
                                    THEN SubSeq(@, 1, Len(@) - 1)
                                    ELSE Tail(@),
                        !.send[e] = enq.q,
                        !.res = r.res,
                        !.trace = (Append(@, deqEv) \o Tag(r.log, e)) \o <<enqEv>>,
                        !.issued = IF enq.ok /\ r.result.tag = "GenerateKey"
                                   THEN @ \cup {r.result.key_id} ELSE @,
                        !.completed = @ \cup SyncedPaths(r.res)]

Serve_two(st, e, o) == ServeVariant(st, e, o, "two")

Serve_noready(st, e, o) == ServeVariant(st, e, o, "noready")

Serve_droperr(st, e, o) == ServeVariant(st, e, o, "droperr")

Serve_lifo(st, e, o) == ServeVariant(st, e, o, "lifo")

\* the body of the loop of process() for endpoint e; st is the state of the
\* service, o what the environment does while the request is served
Serve(st, e, o) ==
    IF ~ready(st.send[e])
    THEN [st EXCEPT !.trace = Append(@, [Ev("skip") EXCEPT !.ep = e])]
    ELSE IF st.recv[e] = <<>>
    THEN st
    ELSE LET request == Head(st.recv[e])
             r       == reply_to(st.res, request, o)
             enq     == enqueue(st.send[e], r.result)
             deqEv   == [Ev("dequeue") EXCEPT !.ep = e, !.msg = request]
             enqEv   == [Ev("enqueue") EXCEPT !.ep = e, !.msg = r.result, !.ok = enq.ok]
         IN  [st EXCEPT !.recv[e] = Tail(@),
                        !.send[e] = enq.q,
                        !.res = r.res,
                        !.trace = (Append(@, deqEv) \o Tag(r.log, e)) \o <<enqEv>>,
                        !.issued = IF enq.ok /\ r.result.tag = "GenerateKey"
                                   THEN @ \cup {r.result.key_id} ELSE @,
                        !.completed = @ \cup SyncedPaths(r.res)]

\* the loop over the endpoints from the last registered to the first
RECURSIVE ServeFrom_rev(_, _)
ServeFrom_rev(i, st) ==
    IF i > Len(eps) THEN {st}
    ELSE LET S == { Serve(st, eps[Len(eps) + 1 - i], o) : o \in Outcomes }
         IN  UNION { ServeFrom_rev(i + 1, s) : s \in S }

\* the loop with `break` in the place of `continue`
RECURSIVE ServeFrom_break(_, _)
ServeFrom_break(i, st) ==
    IF i > Len(eps) THEN {st}
    ELSE LET S == { Serve(st, eps[i], o) : o \in Outcomes }
         IN  IF ~ready(st.send[eps[i]]) THEN S
             ELSE UNION { ServeFrom_break(i + 1, s) : s \in S }

\* for ep in eps.iter_mut(): the states the service can be in after the
\* endpoints from position i on were visited
RECURSIVE ServeFrom(_, _)
ServeFrom(i, st) ==
    IF i > Len(eps) THEN {st}
    ELSE LET S == { Serve(st, eps[i], o) : o \in Outcomes }
         IN  UNION { ServeFrom(i + 1, s) : s \in S }

Op(name) == [name |-> name, ep |-> 0, ret |-> "Ok", back |-> 0]

InitService ==
    /\ eps = <<>>
    /\ recv = [e \in Endpoints |-> <<>>]
    /\ send = [e \in Endpoints |-> <<>>]
    /\ vfs = EmptyFs
    /\ pfs = EmptyFs
    /\ op = Op("new")
    /\ trace = <<>>
    /\ issued = {}
    /\ completed = {}
    /\ nreq = 0

\* Service::new
Init ==
    /\ InitService
    /\ aead = AeadOff
    /\ ui = UiOff

\* Vec::push of the bounded vector: Err(item) when the vector is full
push(vec, item) ==
    IF Len(vec) < MAX_SERVICE_CLIENTS
    THEN [vec |-> Append(vec, item), ret |-> "Ok", back |-> 0]
    ELSE [vec |-> vec, ret |-> "Err", back |-> item]

\* add_endpoint that grows the vector without looking at its capacity
add_endpoint_unbounded(e) ==
    /\ e \notin Range(eps)
    /\ \A f \in Endpoints : f < e => f \in Range(eps)
    /\ eps' = Append(eps, e)
    /\ op' = [name |-> "add_endpoint", ep |-> e, ret |-> "Ok", back |-> 0]
    /\ trace' = <<>>
    /\ UNCHANGED <<recv, send, vfs, pfs, issued, completed, nreq, aead, ui>>

\* Service::add_endpoint: self.eps.push(ep).  An endpoint is moved into the
\* service, so it is registered at most once; endpoints are interchangeable
\* and the callers hand them over in the order of their numbers.
add_endpoint(e) ==
    /\ e \notin Range(eps)
    /\ \A f \in Endpoints : f < e => f \in Range(eps)
    /\ LET r == push(eps, e)
       IN  /\ eps' = r.vec
           /\ op' = [name |-> "add_endpoint", ep |-> e, ret |-> r.ret, back |-> r.back]
    /\ trace' = <<>>
    /\ UNCHANGED <<recv, send, vfs, pfs, issued, completed, nreq, aead, ui>>

\* Service::process
process ==
    /\ \E st \in ServeFrom(1, [recv |-> recv, send |-> send,
                               res |-> [vfs |-> vfs, pfs |-> pfs],
                               trace |-> <<>>, issued |-> issued,
                               completed |-> completed]) :
          /\ recv' = st.recv
          /\ send' = st.send
          /\ vfs' = st.res.vfs
          /\ pfs' = st.res.pfs
          /\ trace' = st.trace
          /\ issued' = st.issued
          /\ completed' = st.completed
    /\ op' = Op("process")
    /\ UNCHANGED <<eps, nreq, aead, ui>>

\* a client places a request on the request queue of its endpoint
ClientRequest(e, request) ==
    /\ nreq < MaxRequests
    /\ Len(recv[e]) < RecvCap
    /\ recv' = [recv EXCEPT ![e] = Append(@, request)]
    /\ nreq' = nreq + 1
    /\ op' = Op("client")
    /\ trace' = <<>>
    /\ UNCHANGED <<eps, send, vfs, pfs, issued, completed, aead, ui>>

\* a client takes the oldest reply from the reply queue of its endpoint
ClientTake(e) ==
    /\ send[e] # <<>>
    /\ send' = [send EXCEPT ![e] = Tail(@)]
    /\ op' = Op("client")
    /\ trace' = <<>>
    /\ UNCHANGED <<eps, recv, vfs, pfs, issued, completed, nreq, aead, ui>>

Next ==
    \/ \E e \in Endpoints : add_endpoint(e)
    \/ process
    \/ \E e \in Endpoints, request \in Requests : ClientRequest(e, request)
    \/ \E e \in Endpoints : ClientTake(e)

Spec == Init /\ [][Next]_vars

(* ---------------------------------------------------------------------- *)
(* aead_in_place and adad_in_place on buffers of a caller                  *)
(* ---------------------------------------------------------------------- *)

\* longest plaintext and longest associated data
MaxBufLen == 2

\* the bytes the buffers are made of
BufBytes == {9, 255}

RECURSIVE SeqsUpTo(_, _)
SeqsUpTo(S, n) ==
    IF n = 0 THEN {<<>>}
    ELSE LET T == SeqsUpTo(S, n - 1)
         IN  T \cup { Append(t, x) : t \in { u \in T : Len(u) = n - 1 }, x \in S }

Plaintexts == SeqsUpTo(BufBytes, MaxBufLen)

AssociatedData == SeqsUpTo({1, 254}, MaxBufLen)

\* a key that is not the key of the service
ForeignKey == [i \in 1..AEAD_KEY_LEN |-> 0]

\* byte i of buf with its lowest bit flipped
FlipBit(buf, i) == [buf EXCEPT ![i] = Xor(@, 1)]

\* what the caller holds: the plaintext and the associated data, what
\* aead_in_place left (ct, nonce, tag), what is handed to adad_in_place
\* (pad, pct, ptag), and what adad_in_place returned (result, out)
AeadStart(plain, ad) ==
    [pc |-> "start", plain |-> plain, ad |-> ad,
     ct |-> <<>>, nonce |-> <<>>, tag |-> Mac(<<>>, <<>>, <<>>, <<>>),
     pad |-> <<>>, pct |-> <<>>, ptag |-> Mac(<<>>, <<>>, <<>>, <<>>),
     result |-> "", out |-> <<>>]

InitAead ==
    /\ InitService
    /\ ui = UiOff
    /\ aead \in { AeadStart(plain, ad) : plain \in Plaintexts, ad \in AssociatedData }

\* let (nonce, tag) = resources.aead_in_place(ad, &mut buf)
Encrypt ==
    /\ aead.pc = "start"
    /\ LET r == aead_in_place(aead.ad, aead.plain)
       IN  aead' = [aead EXCEPT !.pc = "encrypted", !.ct = r.buf, !.nonce = r.nonce,
                                !.tag = r.tag, !.pad = aead.ad, !.pct = r.buf,
                                !.ptag = r.tag]
    /\ UNCHANGED <<svcVars, ui>>

\* a bit of the stored ciphertext flips
TamperCiphertext(i) ==
    /\ aead.pc = "encrypted"
    /\ i \in 1..Len(aead.pct)
    /\ aead' = [aead EXCEPT !.pct = FlipBit(@, i)]
    /\ UNCHANGED <<svcVars, ui>>

\* a bit of the associated data flips
TamperAd(i) ==
    /\ aead.pc = "encrypted"
    /\ i \in 1..Len(aead.pad)
    /\ aead' = [aead EXCEPT !.pad = FlipBit(@, i)]
    /\ UNCHANGED <<svcVars, ui>>

\* the tag is replaced by the one somebody without the key of the service
\* computes for the ciphertext and the associated data at hand
TamperTag ==
    /\ aead.pc = "encrypted"
    /\ aead' = [aead EXCEPT !.ptag = Mac(ForeignKey, aead.nonce, aead.pad, aead.pct)]
    /\ UNCHANGED <<svcVars, ui>>

\* resources.adad_in_place(&nonce, ad, &mut buf, &tag)
Decrypt ==
    /\ aead.pc = "encrypted"
    /\ LET r == adad_in_place(aead.nonce, aead.pad, aead.pct, aead.ptag)
       IN  aead' = [aead EXCEPT !.pc = "done", !.result = r.result, !.out = r.buf]
    /\ UNCHANGED <<svcVars, ui>>

NextAead ==
    \/ Encrypt
    \/ \E i \in 1..MaxBufLen : TamperCiphertext(i)
    \/ \E i \in 1..MaxBufLen : TamperAd(i)
    \/ TamperTag
    \/ Decrypt

AeadSpec == InitAead /\ [][NextAead]_vars

(* ---------------------------------------------------------------------- *)
(* The user interface of the board (runners/lpc55/board/src/trussed.rs)    *)
(* ---------------------------------------------------------------------- *)

\* number of steps of the clock
MaxTicks == 4

U8_MAX == 255

\* 250 ms white, 250 ms off
WINK_PERIOD_MS == 500

WINK_ON_MS == 250

BLACK == [red |-> 0, green |-> 0, blue |-> 0]

RED == [red |-> U8_MAX, green |-> 0, blue |-> 0]

GREEN == [red |-> 0, green |-> U8_MAX, blue |-> 2]

TEAL == [red |-> 0, green |-> U8_MAX, blue |-> 90]

ORANGE == [red |-> U8_MAX, green |-> 126, blue |-> 0]

WHITE == [red |-> U8_MAX, green |-> U8_MAX, blue |-> U8_MAX]

\* ui::Status
Statuses == {"Idle", "Processing", "WaitingForUserPresence", "Error"}

\* the durations a caller asks a wink for
Durations == {WINK_ON_MS, WINK_PERIOD_MS + WINK_ON_MS}

\* Option<Range<Duration>>
None == [some |-> FALSE, start |-> 0, end |-> 0]

Some(start, end) == [some |-> TRUE, start |-> start, end |-> end]

\* Range::contains
contains(range, time) == range.start <= time /\ time < range.end

\* UserInterface::new; led is the colour last set on the LED, now the uptime
\* of the rtc, last the operation called last with the wink it found.
\* winked and nonIdle tell whether wink() was called, and whether a status
\* other than Idle was set since.
NewUserInterface(rgb, provisioner) ==
    [pc |-> "on", rgb |-> rgb, provisioner |-> provisioner, wink |-> None,
     led |-> BLACK, now |-> 0, winked |-> FALSE, nonIdle |-> FALSE,
     last |-> [name |-> "new", status |-> "", wink |-> None]]

\* rgb.set(color) on the LED, if there is one
rgb_set(u, color) == [u EXCEPT !.led = color]

uptime(u) == u.now

\* set_status that aborts the wink when the device becomes idle
set_status_inverted(u, status) ==
    LET lit == IF u.rgb
               THEN CASE status = "Idle" ->
                             IF u.provisioner THEN rgb_set(u, WHITE) ELSE rgb_set(u, GREEN)
                      [] status = "Processing" -> rgb_set(u, TEAL)
                      [] status = "WaitingForUserPresence" -> rgb_set(u, ORANGE)
                      [] status = "Error" -> rgb_set(u, RED)
               ELSE u
    IN  IF status = "Idle" THEN [lit EXCEPT !.wink = None] ELSE lit

\* UserInterface::set_status
set_status(u, status) ==
    LET lit == IF u.rgb
               THEN CASE status = "Idle" ->
                             IF u.provisioner THEN rgb_set(u, WHITE) ELSE rgb_set(u, GREEN)
                      [] status = "Processing" -> rgb_set(u, TEAL)
                      [] status = "WaitingForUserPresence" -> rgb_set(u, ORANGE)
                      [] status = "Error" -> rgb_set(u, RED)
               ELSE u
    IN  IF status # "Idle" THEN [lit EXCEPT !.wink = None] ELSE lit

\* UserInterface::refresh
refresh(u) ==
    IF ~u.rgb THEN u
    ELSE IF u.wink.some
         THEN LET time == uptime(u)
              IN  IF contains(u.wink, time)
                  THEN LET color == IF (time - u.wink.start) % WINK_PERIOD_MS < WINK_ON_MS
                                    THEN WHITE ELSE BLACK
                       IN  rgb_set(u, color)
                  ELSE [set_status(u, "Idle") EXCEPT !.wink = None]
         ELSE u

\* UserInterface::wink; self.rgb.as_mut().unwrap() panics without an LED
wink(u, duration) ==
    LET time  == uptime(u)
        armed == [u EXCEPT !.wink = Some(time, time + duration)]
    IN  IF armed.rgb THEN rgb_set(armed, WHITE)
        ELSE [armed EXCEPT !.pc = "panicked"]

InitUi ==
    /\ InitService
    /\ aead = AeadOff
    /\ ui \in { NewUserInterface(rgb, provisioner) : rgb \in BOOLEAN, provisioner \in BOOLEAN }

\* a call of set_status(status)
SetStatus(status) ==
    /\ ui.pc = "on"
    /\ ui' = [set_status(ui, status) EXCEPT
                !.nonIdle = ui.nonIdle \/ status # "Idle",
                !.last = [name |-> "set_status", status |-> status, wink |-> ui.wink]]
    /\ UNCHANGED <<svcVars, aead>>

\* a call of refresh()
Refresh ==
    /\ ui.pc = "on"
    /\ ui' = [refresh(ui) EXCEPT
                !.last = [name |-> "refresh", status |-> "", wink |-> ui.wink]]
    /\ UNCHANGED <<svcVars, aead>>

\* a call of wink(duration)
Wink(duration) ==
    /\ ui.pc = "on"
    /\ ui' = [wink(ui, duration) EXCEPT
                !.winked = TRUE,
                !.nonIdle = FALSE,
                !.last = [name |-> "wink", status |-> "", wink |-> ui.wink]]
    /\ UNCHANGED <<svcVars, aead>>

\* the rtc advances
Tick ==
    /\ ui.pc = "on"
    /\ ui.now < MaxTicks * WINK_ON_MS
    /\ ui' = [ui EXCEPT !.now = @ + WINK_ON_MS]
    /\ UNCHANGED <<svcVars, aead>>

NextUi ==
    \/ \E status \in Statuses : SetStatus(status)
    \/ Refresh
    \/ \E duration \in Durations : Wink(duration)
    \/ Tick

UiSpec == InitUi /\ [][NextUi]_vars

(* ---------------------------------------------------------------------- *)
(* Reading the events of a pass                                            *)
(* ---------------------------------------------------------------------- *)

\* the positions of the events of kind ev of endpoint e in t
At(t, e, ev) == { k \in 1..Len(t) : t[k].ep = e /\ t[k].ev = ev }

\* the positions of the events of endpoint e in t that use a resource
ResourceUse(t, e) ==
    { k \in 1..Len(t) : t[k].ep = e /\ t[k].ev \in {"rng", "aead", "create", "write", "sync"} }

\* the request taken from endpoint e in the pass, the result put back
RequestOf(t, e) == t[CHOOSE k \in At(t, e, "dequeue") : TRUE].msg

ResultOf(t, e) == t[CHOOSE k \in At(t, e, "enqueue") : TRUE].msg

(* ---------------------------------------------------------------------- *)
(* Properties                                                              *)
(* ---------------------------------------------------------------------- *)

\* C1: a process() call takes exactly one request, the oldest, from every
\* registered endpoint whose reply queue has room and whose request queue
\* holds n >= 1 requests, and leaves the other n-1 queued; it never takes
\* more than one request from an endpoint.
C1_OneRequestPerEndpoint ==
    [][op'.name = "process" =>
        \A e \in Endpoints :
            /\ Len(recv'[e]) >= Len(recv[e]) - 1
            /\ Cardinality(At(trace', e, "dequeue")) <= 1
            /\ (e \in Range(eps) /\ Len(send[e]) < SendCap /\ Len(recv[e]) >= 1) =>
                  /\ recv'[e] = Tail(recv[e])
                  /\ Cardinality(At(trace', e, "dequeue")) = 1
                  /\ RequestOf(trace', e) = Head(recv[e])]_vars

\* a pass took one request from an endpoint and left another one queued
C1_Witness ==
    /\ op.name = "process"
    /\ \E e \in Range(eps) :
          /\ Cardinality(At(trace, e, "dequeue")) = 1
          /\ Len(recv[e]) >= 1

\* C2: an endpoint whose reply queue is full when process() visits it is
\* skipped: its request queue and its reply queue are unchanged and nothing
\* is done with the resources on its behalf.
C2_FullEndpointSkipped ==
    [][op'.name = "process" =>
        \A e \in Range(eps) :
            Len(send[e]) >= SendCap =>
                /\ recv'[e] = recv[e]
                /\ send'[e] = send[e]
                /\ At(trace', e, "dequeue") = {}
                /\ At(trace', e, "enqueue") = {}
                /\ ResourceUse(trace', e) = {}]_vars

\* a pass skipped an endpoint that had a request waiting
C2_Witness ==
    /\ op.name = "process"
    /\ \E e \in Range(eps) :
          /\ At(trace, e, "skip") # {}
          /\ Len(send[e]) >= SendCap
          /\ recv[e] # <<>>

\* C3: add_endpoint on a full vector fails, hands the endpoint back and leaves
\* the registered endpoints as they are; the vector never holds more than
\* MAX_SERVICE_CLIENTS endpoints.
C3_AddEndpointBounded ==
    /\ Len(eps) <= MAX_SERVICE_CLIENTS
    /\ [][/\ Len(eps') <= MAX_SERVICE_CLIENTS
          /\ (op'.name = "add_endpoint" /\ Len(eps) = MAX_SERVICE_CLIENTS /\ op' # op) =>
                /\ op'.ret = "Err"
                /\ op'.back = op'.ep
                /\ eps' = eps
                /\ recv'[op'.ep] = recv[op'.ep]
                /\ send'[op'.ep] = send[op'.ep]]_vars

\* an endpoint was turned away by the full service
C3_Witness ==
    /\ op.name = "add_endpoint"
    /\ op.ret = "Err"
    /\ op.back = op.ep
    /\ op.ep \notin Range(eps)
    /\ Len(eps) = MAX_SERVICE_CLIENTS

\* the endpoints a request was taken from in the pass t
Served(t) == { e \in Endpoints : At(t, e, "dequeue") # {} }

\* the positions of the file system events of endpoint e in t
StoreUse(t, e) ==
    { k \in 1..Len(t) : t[k].ep = e /\ t[k].ev \in {"create", "write", "sync"} }

\* the endpoints whose request ended in a GenerateKey reply in the pass t
Generated(t) == { e \in Served(t) : ResultOf(t, e).tag = "GenerateKey" }

\* C4: a successful GenerateKeypair(Ed25519) writes the seed to exactly one
\* file of the persistent store and writes nothing to the volatile store.
C4_SeedInDurableStore ==
    op.name = "process" =>
        \A e \in Generated(trace) :
            /\ \A k \in StoreUse(trace, e) : trace[k].store = "pfs"
            /\ Cardinality({ trace[k].path : k \in At(trace, e, "write") }) = 1
            /\ \E k \in At(trace, e, "write") :
                  /\ trace[k].store = "pfs"
                  /\ trace[k].data \in SeedVals
                  /\ trace[k].path \in DOMAIN pfs

\* C5: a GenerateKey reply is given only after create, write and sync of the
\* key file all succeeded; a failure of one of them gives
\* FilesystemWriteFailure.  Every key id ever handed out names a file that
\* was written and synced.
C5_HandleOnlyAfterSync ==
    /\ \A id \in issued : key_path(id) \in completed
    /\ op.name = "process" =>
          \A e \in Served(trace) :
              /\ ResultOf(trace, e).tag = "GenerateKey" =>
                    \E kc \in At(trace, e, "create"), kw \in At(trace, e, "write"),
                       ks \in At(trace, e, "sync") :
                        /\ kc < kw /\ kw < ks
                        /\ trace[kc].ok /\ trace[kw].ok /\ trace[ks].ok
                        /\ trace[kc].path = key_path(ResultOf(trace, e).key_id)
                        /\ trace[kw].path = trace[kc].path
                        /\ trace[ks].path = trace[kc].path
                        /\ trace[kw].data \in SeedVals
              /\ (\E k \in StoreUse(trace, e) : ~trace[k].ok) =>
                    ResultOf(trace, e) = Err("FilesystemWriteFailure")

\* a sync failed in a pass, the request got FilesystemWriteFailure and left an
\* unsynced file behind, and a handle of another key has been handed out
C5_Witness ==
    /\ op.name = "process"
    /\ issued # {}
    /\ \E e \in Served(trace) :
          /\ ResultOf(trace, e) = Err("FilesystemWriteFailure")
          /\ \E k \in At(trace, e, "sync") :
                /\ ~trace[k].ok
                /\ trace[k].path \in DOMAIN vfs
                /\ ~vfs[trace[k].path].synced
                /\ trace[k].path \notin completed

\* C6: when a read of the entropy source fails, for the seed or for the
\* unique id, the request gets EntropyMalfunction, no file is created or
\* written in either store and no key handle is handed out.
C6_EntropyFailureAborts ==
    /\ [](op.name = "process" =>
            \A e \in Served(trace) :
                (\E k \in At(trace, e, "rng") : ~trace[k].ok) =>
                    /\ ResultOf(trace, e) = Err("EntropyMalfunction")
                    /\ StoreUse(trace, e) = {})
    /\ [][(/\ op'.name = "process"
           /\ \A e \in Served(trace') : \E k \in At(trace', e, "rng") : ~trace'[k].ok) =>
             /\ vfs' = vfs
             /\ pfs' = pfs
             /\ issued' = issued]_vars

\* in one pass the read of the seed failed for one request and the read of
\* the unique id for another
C6_Witness ==
    /\ op.name = "process"
    /\ \E e1, e2 \in Served(trace) :
          /\ \E k \in At(trace, e1, "rng") : trace[k].n = SEED_LEN /\ ~trace[k].ok
          /\ \E k \in At(trace, e2, "rng") : trace[k].n = ID_LEN /\ ~trace[k].ok
          /\ ResultOf(trace, e1) = Err("EntropyMalfunction")
          /\ ResultOf(trace, e2) = Err("EntropyMalfunction")

\* C7: GenerateKeypair with a mechanism that is not served gets
\* MechanismNotAvailable; the entropy source is not read and nothing is done
\* with the stores.
C7_UnsupportedMechanism ==
    /\ [](op.name = "process" =>
            \A e \in Served(trace) :
                (RequestOf(trace, e).tag = "GenerateKeypair"
                    /\ RequestOf(trace, e).mechanism # "Ed25519") =>
                    /\ ResultOf(trace, e) = Err("MechanismNotAvailable")
                    /\ ResourceUse(trace, e) = {})
    /\ [][(/\ op'.name = "process"
           /\ \A e \in Served(trace') :
                 /\ RequestOf(trace', e).tag = "GenerateKeypair"
                 /\ RequestOf(trace', e).mechanism # "Ed25519") =>
             /\ vfs' = vfs
             /\ pfs' = pfs
             /\ issued' = issued]_vars

\* a request for a P256 key pair was answered with MechanismNotAvailable
C7_Witness ==
    /\ op.name = "process"
    /\ \E e \in Served(trace) :
          /\ RequestOf(trace, e) = GenerateKeypair("P256")
          /\ ResultOf(trace, e) = Err("MechanismNotAvailable")
          /\ send[e] # <<>>
          /\ send[e][Len(send[e])] = Err("MechanismNotAvailable")

\* C8: a request that is neither DummyRequest nor GenerateKeypair gets
\* RequestNotAvailable, DummyRequest gets DummyReply; neither reads the
\* entropy source nor touches a store.
C8_OtherRequests ==
    /\ [](op.name = "process" =>
            \A e \in Served(trace) :
                /\ RequestOf(trace, e).tag \notin {"DummyRequest", "GenerateKeypair"} =>
                      /\ ResultOf(trace, e) = Err("RequestNotAvailable")
                      /\ ResourceUse(trace, e) = {}
                /\ RequestOf(trace, e).tag = "DummyRequest" =>
                      /\ ResultOf(trace, e) = DummyReply
                      /\ ResourceUse(trace, e) = {})
    /\ [][(/\ op'.name = "process"
           /\ \A e \in Served(trace') : RequestOf(trace', e).tag # "GenerateKeypair") =>
             /\ vfs' = vfs
             /\ pfs' = pfs
             /\ issued' = issued]_vars

\* one pass answered a DummyRequest and a request of another kind
C8_Witness ==
    /\ op.name = "process"
    /\ \E e1, e2 \in Served(trace) :
          /\ RequestOf(trace, e1) = DummyRequest
          /\ ResultOf(trace, e1) = DummyReply
          /\ RequestOf(trace, e2) = OtherRequest
          /\ ResultOf(trace, e2) = Err("RequestNotAvailable")

\* C9: every request process() takes from an endpoint gives exactly one
\* result, a reply or an error, and that result is put on the reply queue of
\* the same endpoint: in every pass and for every endpoint the reply queue
\* grows by as many results as the request queue loses requests.
C9_OneResultPerRequest ==
    [][op'.name = "process" =>
        \A e \in Endpoints :
            LET taken == Len(recv[e]) - Len(recv'[e])
            IN  /\ Len(send'[e]) - Len(send[e]) = taken
                /\ taken = Cardinality(At(trace', e, "dequeue"))
                /\ taken = 0 => send'[e] = send[e]
                /\ taken = 1 =>
                      /\ send'[e] = Append(send[e], ResultOf(trace', e))
                      /\ ResultOf(trace', e).kind \in {"Ok", "Err"}]_vars

\* one pass put an error on the reply queue of one endpoint and a reply on
\* the reply queue of another
C9_Witness ==
    /\ op.name = "process"
    /\ \E e1, e2 \in Served(trace) :
          /\ ResultOf(trace, e1).kind = "Err"
          /\ ResultOf(trace, e2).kind = "Ok"
          /\ send[e1] = <<ResultOf(trace, e1)>>
          /\ send[e2] = <<ResultOf(trace, e2)>>
          /\ ResultOf(trace, e1) # ResultOf(trace, e2)

\* the value of a lowercase hexadecimal digit, 16 for any other character
HexValue(c) ==
    CASE c = "0" -> 0 [] c = "1" -> 1 [] c = "2" -> 2 [] c = "3" -> 3
      [] c = "4" -> 4 [] c = "5" -> 5 [] c = "6" -> 6 [] c = "7" -> 7
      [] c = "8" -> 8 [] c = "9" -> 9 [] c = "a" -> 10 [] c = "b" -> 11
      [] c = "c" -> 12 [] c = "d" -> 13 [] c = "e" -> 14 [] c = "f" -> 15
      [] OTHER -> 16

\* p is '/' followed by the lowercase hex digits of the bytes of id
IsPathOf(p, id) ==
    /\ Len(p) = PATH_LEN
    /\ Len(id) = ID_LEN
    /\ p[1] = "/"
    /\ \A i \in 1..ID_LEN :
          /\ HexValue(p[2 * i]) < 16
          /\ HexValue(p[2 * i + 1]) < 16
          /\ 16 * HexValue(p[2 * i]) + HexValue(p[2 * i + 1]) = id[i]

\* C10: the key file of a successful GenerateKeypair is written at the
\* 33-byte path made of '/' and the 32 lowercase hex digits of the unique id,
\* and the key handle of the reply holds that unique id.
C10_PathFromHandle ==
    op.name = "process" =>
        \A e \in Generated(trace) :
            /\ At(trace, e, "write") # {}
            /\ \A k \in StoreUse(trace, e) :
                  /\ IsPathOf(trace[k].path, ResultOf(trace, e).key_id)
                  /\ trace[k].path \in (DOMAIN vfs) \cup (DOMAIN pfs)

\* a key was generated whose unique id has bytes with digits above 9
C10_Witness ==
    /\ op.name = "process"
    /\ \E e \in Generated(trace) :
          /\ \E i \in 1..ID_LEN : ResultOf(trace, e).key_id[i] % 16 > 9
          /\ \E i \in 1..ID_LEN : ResultOf(trace, e).key_id[i] \div 16 > 9
          /\ \E k \in At(trace, e, "write") :
                trace[k].ok /\ IsPathOf(trace[k].path, ResultOf(trace, e).key_id)

\* C11: a (key, nonce) pair is never used for two different plaintexts: the
\* nonce of an encryption is unique under its key.
C11_NonceNeverReused ==
    op.name = "process" =>
        \A k1, k2 \in { k \in 1..Len(trace) : trace[k].ev = "aead" } :
            trace[k1].data # trace[k2].data =>
                ~(trace[k1].key = trace[k2].key /\ trace[k1].nonce = trace[k2].nonce)

\* C14: within one process() call the endpoints are served in the order of
\* their registration: everything done for an endpoint registered earlier
\* comes before everything done for one registered later, so the work for
\* two endpoints is never interleaved.
C14_RegistrationOrder ==
    op.name = "process" =>
        \A i, j \in 1..Len(eps) :
            i < j =>
                \A k1, k2 \in 1..Len(trace) :
                    (trace[k1].ep = eps[i] /\ trace[k2].ep = eps[j]) => k1 < k2

\* one pass generated a key for each of two endpoints
C14_Witness ==
    /\ op.name = "process"
    /\ Len(eps) >= 2
    /\ {eps[1], eps[2]} \subseteq Served(trace)
    /\ StoreUse(trace, eps[1]) # {}
    /\ StoreUse(trace, eps[2]) # {}
    /\ At(trace, eps[1], "rng") # {}
    /\ At(trace, eps[2], "rng") # {}

\* C16: an endpoint that is skipped for its full reply queue does not stop the
\* pass: every other registered endpoint that is ready and has a request,
\* before or after the skipped one, has exactly one request served.
C16_SkipDoesNotBlock ==
    [][op'.name = "process" =>
        \A f \in Range(eps) :
            Len(send[f]) >= SendCap =>
                \A e \in Range(eps) \ {f} :
                    (Len(send[e]) < SendCap /\ recv[e] # <<>>) =>
                        /\ Cardinality(At(trace', e, "dequeue")) = 1
                        /\ Cardinality(At(trace', e, "enqueue")) = 1
                        /\ Len(recv'[e]) = Len(recv[e]) - 1
                        /\ Len(send'[e]) = Len(send[e]) + 1]_vars

\* the endpoint registered first was skipped and the one after it served
C16_Witness ==
    /\ op.name = "process"
    /\ Len(eps) >= 2
    /\ At(trace, eps[1], "skip") # {}
    /\ Cardinality(At(trace, eps[2], "dequeue")) = 1
    /\ send[eps[2]] = <<ResultOf(trace, eps[2])>>
    /\ \A k1 \in At(trace, eps[1], "skip"), k2 \in At(trace, eps[2], "dequeue") : k1 < k2

\* the result is one that reply_to gives for the request
Answers(request, result) ==
    IF request.tag = "DummyRequest" THEN result = DummyReply
    ELSE IF request.tag = "GenerateKeypair" /\ request.mechanism = "Ed25519"
    THEN \/ result.kind = "Ok" /\ result.tag = "GenerateKey"
         \/ result.kind = "Err" /\ result.tag \in {"EntropyMalfunction", "FilesystemWriteFailure"}
    ELSE IF request.tag = "GenerateKeypair"
    THEN result = Err("MechanismNotAvailable")
    ELSE result = Err("RequestNotAvailable")

\* C17: the results of an endpoint come in the order of its requests: the
\* request queue loses its requests at the head, clients add at the tail; the
\* result of the request taken is added at the tail of the reply queue and
\* clients take from its head.
C17_OrderPreserved ==
    [][/\ op'.name = "process" =>
            \A e \in Endpoints :
                Len(recv'[e]) < Len(recv[e]) =>
                    /\ recv[e] = <<RequestOf(trace', e)>> \o recv'[e]
                    /\ send'[e] = send[e] \o <<ResultOf(trace', e)>>
                    /\ Answers(Head(recv[e]), send'[e][Len(send'[e])])
       /\ op'.name = "client" =>
            \A e \in Endpoints :
                /\ \/ recv'[e] = recv[e]
                   \/ /\ Len(recv'[e]) = Len(recv[e]) + 1
                      /\ SubSeq(recv'[e], 1, Len(recv[e])) = recv[e]
                /\ \/ send'[e] = send[e]
                   \/ send[e] # <<>> /\ send'[e] = Tail(send[e])]_vars

\* the older of two different requests of an endpoint was answered and the
\* newer one is still queued
C17_Witness ==
    /\ op.name = "process"
    /\ \E e \in Served(trace) :
          /\ recv[e] # <<>>
          /\ recv[e][1] # RequestOf(trace, e)
          /\ ~Answers(recv[e][1], ResultOf(trace, e))
          /\ Answers(RequestOf(trace, e), ResultOf(trace, e))
          /\ send[e] = <<ResultOf(trace, e)>>

\* the file at path p in the store named s
FileAt(s, p) == IF s = "pfs" THEN pfs[p] ELSE vfs[p]

\* C18: a successful GenerateKeypair(Ed25519) reads the entropy source
\* exactly twice, 32 bytes for the seed and then 16 bytes for the unique id;
\* the file holds the 32 bytes of the first read, the key handle the 16
\* bytes of the second, and the path is the one of the second read: the
\* encryption of a copy of the id changes neither.
C18_TwoDraws ==
    op.name = "process" =>
        \A e \in Generated(trace) :
            /\ Cardinality(At(trace, e, "rng")) = 2
            /\ \E k1, k2 \in At(trace, e, "rng") :
                  /\ k1 < k2
                  /\ trace[k1].n = SEED_LEN /\ trace[k1].ok /\ Len(trace[k1].data) = SEED_LEN
                  /\ trace[k2].n = ID_LEN /\ trace[k2].ok /\ Len(trace[k2].data) = ID_LEN
                  /\ ResultOf(trace, e).key_id = trace[k2].data
                  /\ \A ka \in At(trace, e, "aead") : trace[ka].data = trace[k2].data
                  /\ At(trace, e, "write") # {}
                  /\ \A kw \in At(trace, e, "write") :
                        /\ k2 < kw
                        /\ trace[kw].data = trace[k1].data
                        /\ IsPathOf(trace[kw].path, trace[k2].data)
                        /\ (\A f \in Served(trace) \ {e} :
                               \A kf \in StoreUse(trace, f) : trace[kf].path # trace[kw].path)
                             => /\ FileAt(trace[kw].store, trace[kw].path).data = trace[k1].data
                                /\ FileAt(trace[kw].store, trace[kw].path).synced

\* a key was generated from the seed 1, 2, .., 32 and the id 9, 9, .., 9
C18_Witness ==
    /\ op.name = "process"
    /\ \E e \in Generated(trace) :
          /\ ResultOf(trace, e).key_id = [i \in 1..ID_LEN |-> 9]
          /\ \E kw \in At(trace, e, "write") :
                /\ trace[kw].data = [i \in 1..SEED_LEN |-> i]
                /\ trace[kw].path = <<"/">> \o [i \in 1..(2 * ID_LEN) |-> IF i % 2 = 1 THEN "0" ELSE "9"]
                /\ FileAt(trace[kw].store, trace[kw].path).data = [i \in 1..SEED_LEN |-> i]

(* ---------------------------------------------------------------------- *)
(* Progress                                                                *)
(* ---------------------------------------------------------------------- *)

\* the endpoint whose client keeps taking its replies: the one registered
\* last, which process() visits after every other endpoint
Drained == MAX_SERVICE_CLIENTS

\* a call of process(): the only operation that leaves op = Op("process")
ProcessCalled == op' = Op("process")

\* process() is called again and again by the main loop of the firmware (a
\* call is due whenever something else happened since the last one) and the
\* client of Drained takes every reply; nothing is assumed of the others
LiveSpec ==
    Init /\ [][Next]_vars /\ WF_op(ProcessCalled) /\ WF_vars(ClientTake(Drained))

\* request r is at position pos of the request queue of the registered
\* endpoint e
Pending(e, pos, r) ==
    /\ e \in Range(eps)
    /\ Len(recv[e]) >= pos
    /\ recv[e][pos] = r

\* a pass took request r from endpoint e and put its result on the reply
\* queue of e
Answered(e, r) ==
    /\ op.name = "process"
    /\ e \in Served(trace)
    /\ RequestOf(trace, e) = r
    /\ send[e] # <<>>
    /\ send[e][Len(send[e])] = ResultOf(trace, e)

\* C15: when process() is called again and again and the client of a
\* registered endpoint keeps taking its replies, every request on the request
\* queue of that endpoint is eventually taken and its result put on the
\* reply queue of the endpoint, whatever the other endpoints do.
C15_EveryRequestServed ==
    \A pos \in 1..RecvCap, r \in Requests :
        Pending(Drained, pos, r) ~> Answered(Drained, r)

\* the reply queue of the endpoint registered first is full while a request
\* waits on the endpoint registered after it
C15_Witness ==
    /\ Len(eps) >= 2
    /\ eps[Len(eps)] = Drained
    /\ Len(send[eps[1]]) >= SendCap
    /\ \E r \in Requests : Pending(Drained, 1, r)

\* C12: decrypting what aead_in_place left in the buffer, with the nonce and
\* the tag it returned and the same associated data, succeeds and leaves the
\* plaintext in the buffer; the ciphertext is as long as the plaintext.
C12_RoundTrip ==
    /\ aead.pc \in {"encrypted", "done"} => Len(aead.ct) = Len(aead.plain)
    /\ (aead.pc = "done" /\ aead.pct = aead.ct /\ aead.ptag = aead.tag
            /\ aead.pad = aead.ad) =>
          /\ aead.result = "Ok"
          /\ aead.out = aead.plain

\* a plaintext of two bytes with associated data came back from its
\* ciphertext, which differs from it
C12_Witness ==
    /\ aead.pc = "done"
    /\ aead.pct = aead.ct /\ aead.ptag = aead.tag /\ aead.pad = aead.ad
    /\ Len(aead.plain) = 2
    /\ aead.ad # <<>>
    /\ aead.ct # aead.plain
    /\ aead.result = "Ok"
    /\ aead.out = aead.plain

\* C13: when the ciphertext, the tag or the associated data handed to
\* adad_in_place differs from what aead_in_place produced or was given, the
\* call fails with AeadError; it never succeeds with a wrong plaintext.
C13_TamperDetected ==
    aead.pc = "done" =>
        /\ (aead.pct # aead.ct \/ aead.ptag # aead.tag \/ aead.pad # aead.ad) =>
              aead.result = "AeadError"
        /\ aead.result = "Ok" => aead.out = aead.plain

\* only the associated data was changed and the decryption failed
C13_Witness ==
    /\ aead.pc = "done"
    /\ aead.pct = aead.ct
    /\ aead.ptag = aead.tag
    /\ aead.pad # aead.ad
    /\ aead.plain # <<>>
    /\ aead.result = "AeadError"

\* C19: set_status with a status other than Idle leaves no wink pending,
\* set_status(Idle) leaves the wink as it found it, and a wink is pending
\* only if wink() was called and no status other than Idle was set since.
C19_WinkAbortedByStatus ==
    /\ (ui.last.name = "set_status" /\ ui.last.status # "Idle") => ui.wink = None
    /\ (ui.last.name = "set_status" /\ ui.last.status = "Idle") => ui.wink = ui.last.wink
    /\ ui.wink.some => (ui.winked /\ ~ui.nonIdle)

\* a status other than Idle was set while a wink was pending, and the wink
\* is gone
C19_Witness ==
    /\ ui.pc = "on"
    /\ ui.last.name = "set_status"
    /\ ui.last.status # "Idle"
    /\ ui.last.wink.some
    /\ ui.wink = None

\* C20: no operation of the user interface panics, also when the interface
\* was constructed without an LED.
C20_NoPanic ==
    ui.pc # "panicked"

====
